---- MODULE Spec2Model ----
(***************************************************************************)
(* Model of tools/add-import-in-java/python/add-import.py: a command-line  *)
(* tool that adds an import line to Java source files.                     *)
(*                                                                         *)
(* A Python str and the bytes of a file are sequences of one-character     *)
(* strings.  The alphabet of the model holds letters, punctuation, the     *)
(* blanks " " and "\t", and the line boundaries "\n", "\r" and "\f"        *)
(* ("\f" stands for every boundary of str.splitlines other than "\n",      *)
(* "\r" and "\r\n").                                                      *)
(***************************************************************************)
EXTENDS Integers, Sequences, FiniteSets

VARIABLES
    static,       \* main's parameter: the --static flag
    fqn,          \* main's parameter: the name to import
    java_files,   \* main's parameter: the file arguments, in order
    fs,           \* the file system: path -> [kind, data]
    tmp,          \* the temporary files in the directory (their bytes)
    pc,           \* position of the process in main
    i,            \* 1-based index in java_files of the file the loop is at
    import_line,  \* main's local import_line
    content,      \* main's local content
    new_content,  \* main's local new_content
    stdout,       \* messages echoed to the output stream, in order
    stderr,       \* messages echoed to the error stream, in order
    exit_code,    \* exit status of the process, -1 while it runs
    run,          \* number of the current invocation of the tool
    fs0,          \* the file system as the current invocation found it
    writes        \* number of os.replace calls done by the current invocation

vars == <<static, fqn, java_files, fs, tmp, pc, i, import_line, content,
          new_content, stdout, stderr, exit_code, run, fs0, writes>>

(***************************************************************************)
(* Bounds of the model.                                                    *)
(***************************************************************************)
MaxLines == 2
MaxFiles == 3
MaxRuns == 2

(***************************************************************************)
(* Python's str methods, on sequences of characters.                       *)
(***************************************************************************)
IsWhitespace(c) == c \in {" ", "\t", "\n", "\r", "\f"}

IsLineBreak(c) == c \in {"\n", "\r", "\f"}

\* the positions at which a line boundary of s ends: a line break character
\* that is not the "\r" of a "\r\n"
BreakEnds(s) ==
    {k \in 1..Len(s) :
        /\ IsLineBreak(s[k])
        /\ ~(s[k] = "\r" /\ k < Len(s) /\ s[k + 1] = "\n")}

\* the number of characters of the line boundary that ends at position k
BreakLen(s, k) == IF s[k] = "\n" /\ k > 1 /\ s[k - 1] = "\r" THEN 2 ELSE 1

RECURSIVE LinesFrom(_, _, _)
LinesFrom(s, start, ends) ==
    IF ends = {}
    THEN IF start > Len(s) THEN <<>> ELSE <<SubSeq(s, start, Len(s))>>
    ELSE LET e == CHOOSE m \in ends : \A n \in ends : m <= n
         IN <<SubSeq(s, start, e - BreakLen(s, e))>>
            \o LinesFrom(s, e + 1, ends \ {e})

\* str.splitlines(): the lines of s, without their line boundaries; a text
\* that ends with a boundary has no empty last line
splitlines(s) == LinesFrom(s, 1, BreakEnds(s))

SetMin(S) == CHOOSE m \in S : \A n \in S : m <= n

SetMax(S) == CHOOSE m \in S : \A n \in S : n <= m

NonBlank(s) == {k \in 1..Len(s) : ~IsWhitespace(s[k])}

\* str.lstrip()
lstrip(s) ==
    IF NonBlank(s) = {} THEN <<>> ELSE SubSeq(s, SetMin(NonBlank(s)), Len(s))

\* str.strip()
strip(s) ==
    IF NonBlank(s) = {} THEN <<>>
    ELSE SubSeq(s, SetMin(NonBlank(s)), SetMax(NonBlank(s)))

\* str.startswith(prefix)
startswith(s, prefix) ==
    Len(s) >= Len(prefix) /\ SubSeq(s, 1, Len(prefix)) = prefix

\* str.endswith(suffix)
endswith(s, suffix) ==
    Len(s) >= Len(suffix)
    /\ SubSeq(s, Len(s) - Len(suffix) + 1, Len(s)) = suffix

RECURSIVE JoinFrom(_, _, _)
JoinFrom(sep, lines, k) ==
    IF k > Len(lines) THEN <<>>
    ELSE IF k = Len(lines) THEN lines[k]
    ELSE lines[k] \o sep \o JoinFrom(sep, lines, k + 1)

\* sep.join(lines)
join(sep, lines) == JoinFrom(sep, lines, 1)

\* str.lower(), on the letters of the model's paths
LowerChar(c) ==
    CASE c = "A" -> "a"
      [] c = "B" -> "b"
      [] c = "J" -> "j"
      [] c = "V" -> "v"
      [] OTHER -> c

lower(s) == [k \in 1..Len(s) |-> LowerChar(s[k])]

(***************************************************************************)
(* Text files.                                                             *)
(***************************************************************************)
\* what the character at position k of the bytes is read as
ReadChar(data, k) ==
    IF data[k] = "\r" /\ k < Len(data) /\ data[k + 1] = "\n" THEN <<>>
    ELSE IF data[k] = "\r" THEN <<"\n">>
    ELSE <<data[k]>>

RECURSIVE UniversalNewlines(_, _, _)
UniversalNewlines(data, lo, hi) ==
    IF lo > hi THEN <<>>
    ELSE IF lo = hi THEN ReadChar(data, lo)
    ELSE UniversalNewlines(data, lo, (lo + hi) \div 2)
         \o UniversalNewlines(data, (lo + hi) \div 2 + 1, hi)

\* Path.read_text(encoding="utf-8"): text mode with newline=None, which
\* turns "\r\n" and "\r" into "\n"
_read_text(data) == UniversalNewlines(data, 1, Len(data))

\* os.linesep of the platform the tool runs on (POSIX)
LineSep == <<"\n">>

RECURSIVE TranslateNewlines(_, _, _)
TranslateNewlines(text, lo, hi) ==
    IF lo > hi THEN <<>>
    ELSE IF lo = hi THEN (IF text[lo] = "\n" THEN LineSep ELSE <<text[lo]>>)
    ELSE TranslateNewlines(text, lo, (lo + hi) \div 2)
         \o TranslateNewlines(text, (lo + hi) \div 2 + 1, hi)

\* tf.write(text) on a file opened in mode "w" with newline=None: every "\n"
\* is written as os.linesep
WrittenBytes(text) == TranslateNewlines(text, 1, Len(text))

(***************************************************************************)
(* The functions of add-import.py.                                         *)
(***************************************************************************)
ImportKw == <<"i", "m", "p", "o", "r", "t", " ">>

StaticKw == <<"s", "t", "a", "t", "i", "c", " ">>

PackageKw == <<"p", "a", "c", "k", "a", "g", "e", " ">>

_import_line(st, name) ==
    ImportKw \o (IF st THEN StaticKw ELSE <<>>) \o name \o <<";">>

\* _already_has_import with `return False` inside the loop: only the first
\* line is compared
_already_has_import_first_line(text, line) ==
    LET target == strip(line)
        lines == splitlines(text)
    IN Len(lines) > 0 /\ strip(lines[1]) = target

_already_has_import(text, line) ==
    LET target == strip(line)
        lines == splitlines(text)
    IN \E k \in 1..Len(lines) : strip(lines[k]) = target

IsImportLine(raw) == startswith(lstrip(raw), ImportKw)

IsPackageLine(raw) == startswith(lstrip(raw), PackageKw)

\* <<last_import, package_line>>, 1-based line numbers, 0 when not found
_find_positions(text) ==
    LET lines == splitlines(text)
        imports == {k \in 1..Len(lines) : IsImportLine(lines[k])}
        packages == {k \in 1..Len(lines) : IsPackageLine(lines[k])}
    IN << IF imports = {} THEN 0 ELSE SetMax(imports),
          IF packages = {} THEN 0 ELSE SetMin(packages) >>

\* insert_after without the fallback to the package line
InsertAfterImportsOnly(last_import, package_line) ==
    IF last_import > 0 THEN last_import ELSE 0

\* the value of insert_after
InsertAfter(last_import, package_line) ==
    IF last_import > 0 THEN last_import
    ELSE IF package_line > 0 THEN package_line
    ELSE 0

\* the loop of _insert_import without the blank line after the import
OutLinesForNoBlank(idx, line, insert_after, last_import, package_line, imp) ==
    IF idx = insert_after THEN <<line, imp>> ELSE <<line>>

\* the loop of _insert_import with `idx >= insert_after`
OutLinesForFrom(idx, line, insert_after, last_import, package_line, imp) ==
    IF idx >= insert_after
    THEN IF last_import = 0 /\ package_line > 0
         THEN <<line, imp, <<>>>>
         ELSE <<line, imp>>
    ELSE <<line>>

\* what the loop of _insert_import appends for line number idx
OutLinesFor(idx, line, insert_after, last_import, package_line, imp) ==
    IF idx = insert_after
    THEN IF last_import = 0 /\ package_line > 0
         THEN <<line, imp, <<>>>>
         ELSE <<line, imp>>
    ELSE <<line>>

RECURSIVE OutLines(_, _, _, _, _, _)
OutLines(lines, idx, insert_after, last_import, package_line, imp) ==
    IF idx > Len(lines) THEN <<>>
    ELSE OutLinesFor(idx, lines[idx], insert_after, last_import,
                     package_line, imp)
         \o OutLines(lines, idx + 1, insert_after, last_import,
                     package_line, imp)

\* the newline _insert_import puts after the joined lines
TrailingNewline(text) == IF endswith(text, <<"\n">>) THEN <<"\n">> ELSE <<>>

\* the top insertion with a single newline after the import
TopInsertNoBlank(text, imp) == imp \o <<"\n">> \o text

\* _insert_import, lines 86-91: the import, a blank line, then the file
TopInsert(text, imp) == imp \o <<"\n", "\n">> \o text

_insert_import(text, imp) ==
    LET lines == splitlines(text)
        pos == _find_positions(text)
        last_import == pos[1]
        package_line == pos[2]
        insert_after == InsertAfter(last_import, package_line)
    IN IF insert_after = 0
       THEN TopInsert(text, imp)
       ELSE join(<<"\n">>,
                 OutLines(lines, 1, insert_after, last_import,
                          package_line, imp))
            \o TrailingNewline(text)

(***************************************************************************)
(* Paths.  A path is a file name in the working directory.                 *)
(***************************************************************************)
\* PurePath.suffix: from the last dot on, unless that dot starts or ends
\* the name
suffix(name) ==
    LET dots == {k \in 1..Len(name) : name[k] = "."}
    IN IF dots = {} THEN <<>>
       ELSE IF 1 < SetMax(dots) /\ SetMax(dots) < Len(name)
       THEN SubSeq(name, SetMax(dots), Len(name))
       ELSE <<>>

\* Path.exists()
exists(f, fsys) == fsys[f].kind # "absent"

\* Path.is_file()
is_file(f, fsys) == fsys[f].kind = "file"

JavaSuffix == <<".", "j", "a", "v", "a">>

\* the checks at the head of the loop of main: the warning that skips f,
\* "NONE" when f is accepted
SkipWarning(f, fsys) ==
    IF ~exists(f, fsys) THEN "WARN_NOT_A_FILE"
    ELSE IF ~is_file(f, fsys) THEN "WARN_NOT_A_FILE"
    ELSE IF lower(suffix(f)) # JavaSuffix THEN "WARN_NON_JAVA"
    ELSE "NONE"

\* a line echoed by click.echo: its tag, the path and the import line in it
Msg(tag, f, line) == [tag |-> tag, path |-> f, line |-> line]

\* `break` in the place of `continue`
ContinueAsBreak(idx) == Len(java_files) + 1

\* the `continue` of the loop of main
Continue(idx) == idx + 1

(***************************************************************************)
(* Inputs.                                                                 *)
(***************************************************************************)
FqnList ==
    <<"j", "a", "v", "a", ".", "u", "t", "i", "l", ".", "L", "i", "s", "t">>

FqnOther == <<"a", ".", "B">>

Fqns == {FqnList, FqnOther}

PackageLine ==
    PackageKw \o <<"c", "o", "m", ".", "e", "x", "a", "m", "p", "l", "e", ";">>

ClassLine ==
    <<"p", "u", "b", "l", "i", "c", " ", "c", "l", "a", "s", "s", " ",
      "F", "o", "o", " ", "{", "}">>

ImportListLine == ImportKw \o FqnList \o <<";">>

IndentedImportLine == <<" ", "\t">> \o ImportListLine \o <<" ">>

ImportOtherLine == ImportKw \o FqnOther \o <<";">>

LineTexts ==
    {PackageLine, ImportListLine, IndentedImportLine, ClassLine, <<>>}

Terminators == {<<"\n">>, <<"\r", "\n">>, <<"\f">>}

\* the texts of at most n lines, each ended by a terminator
RECURSIVE Terminated(_)
Terminated(n) ==
    IF n = 0 THEN {<<>>}
    ELSE Terminated(n - 1)
         \cup {l \o t \o rest :
                 l \in LineTexts, t \in Terminators, rest \in Terminated(n - 1)}

\* the texts of at most n lines, the last one ended or not
ContentsOf(n) ==
    IF n = 0 THEN {<<>>}
    ELSE Terminated(n)
         \cup {c \o l : c \in Terminated(n - 1), l \in LineTexts}

\* the lines, each ended by "\n"
Text(lines) == join(<<"\n">>, lines) \o <<"\n">>

ExampleContent == Text(<<PackageLine, <<>>, ClassLine>>)

ExtraContents ==
    { ExampleContent,
      Text(<<PackageLine, ImportOtherLine, ClassLine>>),
      Text(<<PackageLine, ClassLine, ImportOtherLine>>),
      Text(<<PackageLine, <<>>, ImportListLine, ImportListLine, <<>>,
             ClassLine>>) }

Contents == ContentsOf(MaxLines) \cup ExtraContents

\* the contents of A.java when it is one file of a list
ListedContents == {Text(<<PackageLine>>), Text(<<ImportListLine>>)}

FileA == <<"A", ".", "j", "a", "v", "a">>

FileB == <<"B", ".", "J", "A", "V", "A">>

NotesTxt == <<"n", ".", "t", "x", "t">>

DotJava == <<".", "j", "a", "v", "a">>

DirJava == <<"d", ".", "j", "a", "v", "a">>

MissingJava == <<"m", ".", "j", "a", "v", "a">>

Paths == {FileA, FileB, NotesTxt, DotJava, DirJava, MissingJava}

RECURSIVE ListsOf(_)
ListsOf(n) ==
    IF n = 0 THEN {<<>>}
    ELSE ListsOf(n - 1)
         \cup {<<f>> \o rest : f \in Paths, rest \in ListsOf(n - 1)}

FileLists == ListsOf(MaxFiles)

\* the directory: A.java holds c; the other paths are fixed
Directory(c) ==
    [f \in Paths |->
        CASE f = FileA -> [kind |-> "file", data |-> c]
          [] f = FileB ->
                [kind |-> "file", data |-> Text(<<ImportOtherLine>>)]
          [] f = NotesTxt -> [kind |-> "file", data |-> PackageLine]
          [] f = DotJava -> [kind |-> "file", data |-> ClassLine]
          [] f = DirJava -> [kind |-> "dir", data |-> <<>>]
          [] OTHER -> [kind |-> "absent", data |-> <<>>]]

(***************************************************************************)
(* The process: main.                                                      *)
(***************************************************************************)
InitWith(files, c) ==
    /\ static \in BOOLEAN
    /\ fqn \in Fqns
    /\ java_files = files
    /\ fs = Directory(c)
    /\ fs0 = Directory(c)
    /\ tmp = <<>>
    /\ pc = "start"
    /\ i = 0
    /\ import_line = <<>>
    /\ content = <<>>
    /\ new_content = <<>>
    /\ stdout = <<>>
    /\ stderr = <<>>
    /\ exit_code = -1
    /\ run = 1
    /\ writes = 0

\* any list of file arguments, over a directory of short files
Init == \E files \in FileLists, c \in ListedContents : InitWith(files, c)

\* one accepted file, of any content
InitFile == \E c \in Contents : InitWith(<<FileA>>, c)

\* main, lines 115-117: no file argument
UsageError ==
    /\ pc = "start"
    /\ java_files = <<>>
    /\ stderr' = Append(stderr, Msg("ERROR", <<>>, <<>>))
    /\ exit_code' = 1
    /\ pc' = "done"
    /\ UNCHANGED <<static, fqn, java_files, fs, tmp, i, import_line, content,
                   new_content, stdout, run, fs0, writes>>

\* main, line 119, and the entry of the loop
Start ==
    /\ pc = "start"
    /\ java_files # <<>>
    /\ import_line' = _import_line(static, fqn)
    /\ i' = 1
    /\ pc' = "loop"
    /\ UNCHANGED <<static, fqn, java_files, fs, tmp, content, new_content,
                   stdout, stderr, exit_code, run, fs0, writes>>

\* main, lines 121-131: the file is skipped with a warning
Skip ==
    /\ pc = "loop"
    /\ i <= Len(java_files)
    /\ SkipWarning(java_files[i], fs) # "NONE"
    /\ stderr' =
         Append(stderr, Msg(SkipWarning(java_files[i], fs), java_files[i], <<>>))
    /\ i' = Continue(i)
    /\ UNCHANGED <<static, fqn, java_files, fs, tmp, pc, import_line, content,
                   new_content, stdout, exit_code, run, fs0, writes>>

\* main, lines 133-136: the import is already in the file
AlreadyPresent ==
    /\ pc = "loop"
    /\ i <= Len(java_files)
    /\ SkipWarning(java_files[i], fs) = "NONE"
    /\ content' = _read_text(fs[java_files[i]].data)
    /\ _already_has_import(content', import_line)
    /\ stdout' = Append(stdout, Msg("INFO", java_files[i], <<>>))
    /\ i' = Continue(i)
    /\ UNCHANGED <<static, fqn, java_files, fs, tmp, pc, import_line,
                   new_content, stderr, exit_code, run, fs0, writes>>

\* main, lines 133-138: the new content is computed
InsertImport ==
    /\ pc = "loop"
    /\ i <= Len(java_files)
    /\ SkipWarning(java_files[i], fs) = "NONE"
    /\ content' = _read_text(fs[java_files[i]].data)
    /\ ~_already_has_import(content', import_line)
    /\ new_content' = _insert_import(content', import_line)
    /\ pc' = "write"
    /\ UNCHANGED <<static, fqn, java_files, fs, tmp, i, import_line, stdout,
                   stderr, exit_code, run, fs0, writes>>

\* _write_text_atomic, lines 43-45: the temporary file is created, written
\* and closed
WriteTmp ==
    /\ pc = "write"
    /\ tmp' = Append(tmp, WrittenBytes(new_content))
    /\ pc' = "replace"
    /\ UNCHANGED <<static, fqn, java_files, fs, i, import_line, content,
                   new_content, stdout, stderr, exit_code, run, fs0, writes>>

\* _write_text_atomic, line 46, and main, line 140: the temporary file is
\* renamed over the target
Replace ==
    /\ pc = "replace"
    /\ fs' = [fs EXCEPT ![java_files[i]] =
                [kind |-> "file", data |-> tmp[Len(tmp)]]]
    /\ tmp' = SubSeq(tmp, 1, Len(tmp) - 1)
    /\ writes' = writes + 1
    /\ stdout' = Append(stdout, Msg("OK", java_files[i], import_line))
    /\ i' = Continue(i)
    /\ pc' = "loop"
    /\ UNCHANGED <<static, fqn, java_files, import_line, content, new_content,
                   stderr, exit_code, run, fs0>>

\* main returns after the last file
Finish ==
    /\ pc = "loop"
    /\ i > Len(java_files)
    /\ exit_code' = 0
    /\ pc' = "done"
    /\ UNCHANGED <<static, fqn, java_files, fs, tmp, i, import_line, content,
                   new_content, stdout, stderr, run, fs0, writes>>

\* the tool is invoked again with the same arguments
Rerun ==
    /\ pc = "done"
    /\ exit_code = 0
    /\ run < MaxRuns
    /\ run' = run + 1
    /\ fs0' = fs
    /\ pc' = "start"
    /\ i' = 0
    /\ import_line' = <<>>
    /\ content' = <<>>
    /\ new_content' = <<>>
    /\ stdout' = <<>>
    /\ stderr' = <<>>
    /\ exit_code' = -1
    /\ writes' = 0
    /\ UNCHANGED <<static, fqn, java_files, fs, tmp>>

\* the lengths at which a failing tf.write may leave the temporary file: any
\* number of the bytes short of all of them
PartialLengths(bytes) == 0..(Len(bytes) - 1)

\* main, line 133: read_text raises (no permission to read, bytes that are
\* not UTF-8); nothing catches it, the exception ends the process
ReadFails ==
    /\ pc = "loop"
    /\ i <= Len(java_files)
    /\ SkipWarning(java_files[i], fs) = "NONE"
    /\ exit_code' = 1
    /\ pc' = "crashed"
    /\ UNCHANGED <<static, fqn, java_files, fs, tmp, i, import_line, content,
                   new_content, stdout, stderr, run, fs0, writes>>

\* _write_text_atomic, line 43: NamedTemporaryFile raises (no permission to
\* write in the directory); no temporary file exists, the exception ends
\* the process
CreateTmpFails ==
    /\ pc = "write"
    /\ exit_code' = 1
    /\ pc' = "crashed"
    /\ UNCHANGED <<static, fqn, java_files, fs, tmp, i, import_line, content,
                   new_content, stdout, stderr, run, fs0, writes>>

\* _write_text_atomic, lines 43-44: tf.write raises (disk full, I/O error);
\* delete=False leaves the temporary file, the exception ends the process
WriteTmpFails ==
    /\ pc = "write"
    /\ \E k \in PartialLengths(WrittenBytes(new_content)) :
         tmp' = Append(tmp, SubSeq(WrittenBytes(new_content), 1, k))
    /\ exit_code' = 1
    /\ pc' = "crashed"
    /\ UNCHANGED <<static, fqn, java_files, fs, i, import_line, content,
                   new_content, stdout, stderr, run, fs0, writes>>

\* _write_text_atomic, line 46: os.replace raises; nothing removes the
\* temporary file, the exception ends the process
ReplaceFails ==
    /\ pc = "replace"
    /\ exit_code' = 1
    /\ pc' = "crashed"
    /\ UNCHANGED <<static, fqn, java_files, fs, tmp, i, import_line, content,
                   new_content, stdout, stderr, run, fs0, writes>>

\* the steps of main, and the exceptions that end it
Next ==
    \/ UsageError
    \/ Start
    \/ Skip
    \/ AlreadyPresent
    \/ InsertImport
    \/ WriteTmp
    \/ Replace
    \/ Finish
    \/ ReadFails
    \/ CreateTmpFails
    \/ WriteTmpFails
    \/ ReplaceFails

\* the steps of the invocations that run to their end on one accepted file,
\* and the next invocation; an exception ends the process and nothing
\* follows it
NextFile ==
    \/ Start
    \/ AlreadyPresent
    \/ InsertImport
    \/ WriteTmp
    \/ Replace
    \/ Finish
    \/ Rerun

\* the tool run on any list of file arguments
Spec == Init /\ [][Next]_vars

\* the tool run, and run again, on one accepted file of any content
SpecFile == InitFile /\ [][NextFile]_vars

(***************************************************************************)
(* Properties.                                                             *)
(***************************************************************************)
\* the canonical import line of the invocation
Canonical == _import_line(static, fqn)

\* the state in which _insert_import has returned new_content for content
Inserted == pc = "write"

\* the lines of the text read and of the text computed
InLines == splitlines(content)

OutputLines == splitlines(new_content)

\* C1: processing a file a second time with the same specification leaves
\* the content the first run left; the second run reports the import as
\* already present and writes nothing.
C1_Idempotent ==
    run >= 2 =>
        /\ pc \notin {"write", "replace"}
        /\ writes = 0
        /\ fs = fs0
        /\ tmp = <<>>
        /\ pc = "done" => stdout = <<Msg("INFO", FileA, <<>>)>>

\* the second run has ended on a file in which the first run inserted a
\* static import
C1_Witness ==
    /\ run = 2
    /\ pc = "done"
    /\ static
    /\ fs[FileA].data # <<>>
    /\ stdout = <<Msg("INFO", FileA, <<>>)>>

\* C2: the class import java.util.List inserted into the lines
\* 'package com.example;', '', 'public class Foo {}' gives
\* 'package com.example;', 'import java.util.List;', '', 'public class Foo {}',
\* each ended by a newline.
C2_Example ==
    (Inserted /\ content = ExampleContent /\ ~static /\ fqn = FqnList) =>
        new_content =
            Text(<<PackageLine, ImportListLine, <<>>, ClassLine>>)

\* C2, amended: the insertion gives 'package com.example;',
\* 'import java.util.List;', '', '', 'public class Foo {}', each ended by a
\* newline: the blank line the insertion adds comes before the blank line
\* the file had.
C2_ExampleAmended ==
    (Inserted /\ content = ExampleContent /\ ~static /\ fqn = FqnList) =>
        new_content =
            Text(<<PackageLine, ImportListLine, <<>>, <<>>, ClassLine>>)

C2_Witness ==
    /\ Inserted
    /\ content = ExampleContent
    /\ ~static
    /\ fqn = FqnList
    /\ Len(OutputLines) = 5

\* no line of the text begins with 'package ' or 'import ', leading
\* whitespace ignored
NoPackageNoImport(text) ==
    \A k \in 1..Len(splitlines(text)) :
        /\ ~IsImportLine(splitlines(text)[k])
        /\ ~IsPackageLine(splitlines(text)[k])

\* C5: inserting into a text with no package line and no import line gives
\* the canonical line as line 1, an empty line 2, then the text unchanged.
C5_TopInsertion ==
    (Inserted /\ NoPackageNoImport(content)) =>
        /\ new_content = Canonical \o <<"\n", "\n">> \o content
        /\ OutputLines[1] = Canonical
        /\ OutputLines[2] = <<>>
        /\ SubSeq(new_content, Len(Canonical) + 3, Len(new_content)) = content

\* the insertion was at the top of a text that is not empty
C5_Witness ==
    /\ Inserted
    /\ NoPackageNoImport(content)
    /\ content # <<>>
    /\ OutputLines[1] = Canonical

\* C9: the output of the insertion ends with a newline exactly when its
\* input does.
C9_TrailingNewline ==
    Inserted =>
        (endswith(new_content, <<"\n">>) <=> endswith(content, <<"\n">>))

\* a class declaration, as the test of the ordering looks for it
PublicClassKw ==
    <<"p", "u", "b", "l", "i", "c", " ", "c", "l", "a", "s", "s", " ">>

IsClassLine(raw) == startswith(raw, PublicClassKw)

HasPackage(lines) == \E k \in 1..Len(lines) : IsPackageLine(lines[k])

FirstPackage(lines) ==
    SetMin({k \in 1..Len(lines) : IsPackageLine(lines[k])})

\* the line number of the canonical line
CanonicalAt(lines) == CHOOSE k \in 1..Len(lines) : lines[k] = Canonical

\* line number n is after the package line and before every class
\* declaration that follows the package line
InOrder(lines, n) ==
    /\ FirstPackage(lines) < n
    /\ \A c \in (FirstPackage(lines) + 1)..Len(lines) :
         IsClassLine(lines[c]) => n < c

\* C3: in a file with a package declaration, the inserted line is after the
\* package line and before the class declaration that follows it.
C3_Ordering ==
    (Inserted /\ HasPackage(InLines)) =>
        InOrder(OutputLines, CanonicalAt(OutputLines))

\* every import line of the text is after the package line and before the
\* class declarations that follow it
ImportsInOrder(lines) ==
    \A k \in 1..Len(lines) : IsImportLine(lines[k]) => InOrder(lines, k)

\* C3, amended: in a file with a package declaration whose import lines all
\* come after the package line and before the class declaration, the
\* inserted line is after the package line and before the class declaration.
C3_OrderingAmended ==
    (Inserted /\ HasPackage(InLines) /\ ImportsInOrder(InLines)) =>
        InOrder(OutputLines, CanonicalAt(OutputLines))

\* the insertion was between a package line and a class declaration
C3_Witness ==
    /\ Inserted
    /\ HasPackage(InLines)
    /\ ImportsInOrder(InLines)
    /\ \E c \in 1..Len(OutputLines) :
         /\ IsClassLine(OutputLines[c])
         /\ FirstPackage(OutputLines) < CanonicalAt(OutputLines)
         /\ CanonicalAt(OutputLines) < c

ImportLineNumbers(lines) == {k \in 1..Len(lines) : IsImportLine(lines[k])}

\* C4: in a file with import lines the new line comes right after the last
\* of them, and removing it from the output gives the lines of the input.
C4_AfterLastImport ==
    (Inserted /\ ImportLineNumbers(InLines) # {}) =>
        LET last == SetMax(ImportLineNumbers(InLines))
        IN /\ Len(OutputLines) = Len(InLines) + 1
           /\ OutputLines[last + 1] = Canonical
           /\ \A k \in 1..last : OutputLines[k] = InLines[k]
           /\ \A k \in (last + 1)..Len(InLines) : OutputLines[k + 1] = InLines[k]

\* the number of lines of the text that equal the line
LinesEqualTo(text, line) ==
    Cardinality({k \in 1..Len(splitlines(text)) : splitlines(text)[k] = line})

RECURSIVE CountFrom(_, _, _)
CountFrom(text, sub, k) ==
    LET hits == {j \in k..(Len(text) - Len(sub) + 1) :
                    SubSeq(text, j, j + Len(sub) - 1) = sub}
    IN IF hits = {} THEN 0
       ELSE 1 + CountFrom(text, sub, SetMin(hits) + Len(sub))

\* str.count(sub): the occurrences of sub in the text that do not overlap,
\* whole lines or not
count(text, sub) ==
    IF sub = <<>> THEN Len(text) + 1 ELSE CountFrom(text, sub, 1)

\* a line of the file equals the line once both are trimmed
HoldsTrimmed(data, line) ==
    \E k \in 1..Len(splitlines(data)) : strip(splitlines(data)[k]) = strip(line)

\* C6: after the tool processed an accepted file, whatever it held, the
\* file has exactly one line that equals the canonical line.
C6_ExactlyOne ==
    (pc = "done" /\ exit_code = 0) =>
        LinesEqualTo(fs[FileA].data, Canonical) = 1

\* C6, amended: after the tool processed an accepted file that held no line
\* equal, once trimmed, to the canonical line, the file has exactly one line
\* that equals it; a file that held such a line is left as it was.
C6_ExactlyOneAmended ==
    (pc = "done" /\ exit_code = 0) =>
        IF HoldsTrimmed(fs0[FileA].data, Canonical)
        THEN fs = fs0
        ELSE LinesEqualTo(fs[FileA].data, Canonical) = 1

\* the first run has ended after writing a file that had import lines; the
\* assertion of the test, one occurrence of the import line, holds too
C6_Witness ==
    /\ pc = "done"
    /\ run = 1
    /\ writes = 1
    /\ ImportLineNumbers(splitlines(fs0[FileA].data)) # {}
    /\ ~HoldsTrimmed(fs0[FileA].data, Canonical)
    /\ LinesEqualTo(fs[FileA].data, Canonical) = 1
    /\ count(_read_text(fs[FileA].data), Canonical) = 1

\* main, lines 133-140, as a function: the file system and the output
\* stream after file f is processed
ProcessFile(f, st) ==
    LET text == _read_text(st.fs[f].data)
    IN IF _already_has_import(text, Canonical)
       THEN [fs |-> st.fs, out |-> Append(st.out, Msg("INFO", f, <<>>))]
       ELSE [fs |-> [st.fs EXCEPT ![f] =
                        [kind |-> "file",
                         data |-> WrittenBytes(_insert_import(text, Canonical))]],
             out |-> Append(st.out, Msg("OK", f, Canonical))]

RECURSIVE ProcessAll(_, _, _)
ProcessAll(files, k, st) ==
    IF k > Len(files) THEN st
    ELSE ProcessAll(files, k + 1, ProcessFile(files[k], st))

IsSkipped(f) == SkipWarning(f, fs0) # "NONE"

IsAccepted(f) == SkipWarning(f, fs0) = "NONE"

\* the warnings for the skipped paths of the list, in order
Warnings ==
    LET skipped == SelectSeq(java_files, IsSkipped)
    IN [k \in 1..Len(skipped) |->
          Msg(SkipWarning(skipped[k], fs0), skipped[k], <<>>)]

\* C7: a path that is missing, not a regular file or not a .java file is
\* skipped with a warning and left as it was, and the other files of the
\* list are processed as if the skipped paths were not in the list.
C7_SkipsDoNotMatter ==
    /\ \A f \in Paths : IsSkipped(f) => fs[f] = fs0[f]
    /\ (pc = "done" /\ java_files # <<>>) =>
         LET result == ProcessAll(SelectSeq(java_files, IsAccepted), 1,
                                  [fs |-> fs0, out |-> <<>>])
         IN /\ fs = result.fs
            /\ stdout = result.out
            /\ stderr = Warnings

\* a run has ended that skipped a path, then wrote a file, then skipped a
\* path
C7_Witness ==
    /\ pc = "done"
    /\ Len(java_files) = 3
    /\ IsSkipped(java_files[1])
    /\ IsAccepted(java_files[2])
    /\ IsSkipped(java_files[3])
    /\ fs[java_files[2]] # fs0[java_files[2]]
    /\ Len(stderr) = 2
    /\ writes = 1

\* the process has ended, by a return, a SystemExit or an exception
Ended == pc \in {"done", "crashed"}

\* C8: the exit code is 1 exactly when no file path is given, and then
\* nothing is read or written and the error goes to the error stream; it is
\* 0 for every run with a file path, also when every path is skipped.
C8_ExitCode ==
    /\ ~Ended => exit_code = -1
    /\ Ended => (exit_code = 1 <=> java_files = <<>>)
    /\ (Ended /\ java_files # <<>>) => exit_code = 0
    /\ java_files = <<>> =>
         /\ fs = fs0
         /\ content = <<>>
         /\ tmp = <<>>
         /\ stdout = <<>>
         /\ Ended => stderr = <<Msg("ERROR", <<>>, <<>>)>>

\* C10: the target always holds its old content or the new content, whole,
\* and no temporary file remains when the processing of a file has ended,
\* whether the write and the rename succeeded or failed.
C10_AtomicWrite ==
    /\ \A f \in Paths :
         \/ fs[f] = fs0[f]
         \/ fs[f].data =
              WrittenBytes(_insert_import(_read_text(fs0[f].data), Canonical))
    /\ pc \in {"loop", "done", "crashed"} => tmp = <<>>

====
